---- MODULE Spec2Model ----
(***************************************************************************)
(* KlipperAI authentication: the session / refresh-token lifecycle.        *)
(*                                                                         *)
(* The store (tables users and auth_sessions) is shared by every request   *)
(* handler.  A handler is a sequence of database round trips; the model    *)
(* takes one step per group of statements that ends in a SELECT result or  *)
(* a COMMIT, so that handlers of different server processes interleave the *)
(* way PostgreSQL's default READ COMMITTED isolation lets them.            *)
(*                                                                         *)
(* Time is the integer clock `now`, one unit being one clock second as a   *)
(* JWT sees it: PyJWT truncates iat and exp to whole seconds, so two       *)
(* tokens of the same user and type issued within one unit are equal.      *)
(***************************************************************************)
EXTENDS Integers, Sequences, FiniteSets, TLC

(* ---------------------------------------------------------------- bounds *)
MaxUsers == 1
MaxDevices == 2
MaxSessions == 2
MaxTime == 2
NumProcs == 2
WideUsers == 2
MaxMessages == 2
MaxJobs == 2
MaxVideos == 2
\* the lifetimes of a refresh and of an access token in clock units, standing
\* for settings.JWT_REFRESH_TOKEN_EXPIRE_DAYS and
\* settings.JWT_ACCESS_TOKEN_EXPIRE_MINUTES (access shorter than refresh)
RefreshTTL == 2
AccessTTL == 1

\* the addresses requests name: one more than can register
Emails == 1..(MaxUsers + 1)
\* the passwords users register with, and the ones logins try
RegPasswords == {"pw1"}
Passwords == {"pw1", "pw2"}
DeviceIds == 1..MaxDevices
Procs == 1..NumProcs
Time == 0..MaxTime
MsgIds == 1..MaxMessages
\* the blob names upload requests name
BlobNames == {"clip.mp4"}

VARIABLES
    users,       \* table users: sequence of rows, id = position
    sessions,    \* table auth_sessions: sequence of rows, id = position
    now,         \* the clock
    pc,          \* per handler: where it stands
    local,       \* per handler: its local variables
    last,        \* the response the latest step returned, NoResp if none
    \* history
    rotated,     \* refresh tokens some successful refresh has presented
    contested,   \* per refresh in flight: a concurrent refresh of the same
                 \* credential and session has succeeded meanwhile
    refreshed,   \* refresh tokens returned by successful refreshes
    revokedHashes, \* the hashes sessions held when they were revoked
    \* the model's caps on the rows of users and of auth_sessions
    cap,
    \* the background worker
    queue,       \* the Azure queue: message id -> its content and visibility
    worker,      \* the Worker object: running, and the page it iterates over
    jobs,        \* table processing_jobs: sequence of rows, id = position
    wlast,       \* what the worker's latest step did, NoEvent if nothing
    \* uploads
    videos,      \* table videos: sequence of rows, id = position
    blobs,       \* the names of the blobs the storage container holds
    vlast,       \* the latest response of verify_upload, NoUpload if none
    enqueued     \* history: the video ids a processing message was sent for

authvars == <<users, sessions, now, pc, local, last, rotated, contested,
              refreshed, revokedHashes, cap>>

vars == <<users, sessions, now, pc, local, last, rotated, contested,
          refreshed, revokedHashes, cap, queue, worker, jobs, wlast,
          videos, blobs, vlast, enqueued>>

uploadvars == <<videos, blobs, vlast, enqueued>>

(* ---------------------------------------------------------------- codec *)
Token(uid, t, ttl, type) ==
    [user_id |-> uid, iat |-> t, exp |-> t + ttl, type |-> type, sig |-> "ok"]

\* AuthService.generate_tokens: <<access, refresh>>
generate_tokens(user_id, t) ==
    <<Token(user_id, t, AccessTTL, "access"), Token(user_id, t, RefreshTTL, "refresh")>>

\* a clock read once, when the module is loaded
utcnow_frozen(t) == 0

\* datetime.now(timezone.utc) as the handlers and jwt.decode read it
utcnow(t) == t

\* a verify_token that does not look at the type claim
verify_token_any_type(token, token_type, t) ==
    IF token.sig # "ok" THEN <<>>
    ELSE IF token.exp <= utcnow(t) THEN <<>>
    ELSE <<[user_id |-> token.user_id, type |-> token.type]>>

\* AuthService.verify_token: <<payload>> or <<>> (None)
verify_token(token, token_type, t) ==
    IF token.sig # "ok" THEN <<>>
    ELSE IF token.exp <= utcnow(t) THEN <<>>
    ELSE IF token.type # token_type THEN <<>>
    ELSE <<[user_id |-> token.user_id, type |-> token.type]>>

\* AuthService.hash_refresh_token: sha256, collision-free
hash_refresh_token(token) == <<"sha256", token>>

\* AuthService.hash_password / verify_password
hash_password(password) == <<"bcrypt", password>>
verify_password(password, hashed) == hashed = <<"bcrypt", password>>


(* ---------------------------------------------------------------- store *)
\* models.User row (id is the position in the table)
User(email, password_hash) ==
    [email |-> email, password_hash |-> password_hash]

\* models.AuthSession row as create_auth_session builds it; nullable
\* columns are <<>> (NULL) or <<value>>.  The columns the handlers read or
\* write; id is the position in the table, and created_at, which the
\* database sets on insert and nothing reads or updates, is left out
AuthSession(user_id, device_id, refresh_token_hash, expires_at) ==
    [user_id |-> user_id, device_id |-> device_id,
     refresh_token_hash |-> refresh_token_hash, revoked |-> FALSE,
     expires_at |-> expires_at,
     last_used_at |-> <<>>, revoked_at |-> <<>>]

\* users.email unique=True
uq_user_email(rows) ==
    \A i, j \in DOMAIN rows : rows[i].email = rows[j].email => i = j

\* the table without the constraint on (user_id, device_id)
uq_user_device_dropped(rows) == TRUE

\* UniqueConstraint('user_id', 'device_id', name='uq_user_device'): every row,
\* revoked or not
uq_user_device(rows) ==
    \A i, j \in DOMAIN rows :
        (rows[i].user_id = rows[j].user_id /\ rows[i].device_id = rows[j].device_id)
            => i = j

\* the column without unique=True
uq_refresh_token_hash_dropped(rows) == TRUE

\* refresh_token_hash unique=True
uq_refresh_token_hash(rows) ==
    \A i, j \in DOMAIN rows :
        rows[i].refresh_token_hash = rows[j].refresh_token_hash => i = j

\* what db.commit() lets through on auth_sessions; otherwise IntegrityError
SessionsIntegrity(rows) == uq_user_device(rows) /\ uq_refresh_token_hash(rows)

\* Query(...).first(): the id of the first row satisfying P, 0 for None
First(rows, P(_)) ==
    IF \E i \in DOMAIN rows : P(rows[i])
    THEN CHOOSE i \in DOMAIN rows : P(rows[i]) /\ \A j \in 1..(i - 1) : ~P(rows[j])
    ELSE 0

\* uuid.uuid4(): a random identifier, any value of the identifier space
uuid4 == DeviceIds

(* -------------------------------------------------------------- service *)
\* AuthService.authenticate_user: the user's id, 0 for None
authenticate_user(rows, email, password) ==
    LET ByEmail(u) == u.email = email
        id == First(rows, ByEmail)
    IN IF id = 0 THEN 0
       ELSE IF ~verify_password(password, rows[id].password_hash) THEN 0
       ELSE id

\* AuthService.create_auth_session, its query: the non-revoked session of
\* the user on the device
existing_session(rows, user_id, device_id) ==
    LET P(s) == s.user_id = user_id /\ s.device_id = device_id /\ s.revoked = FALSE
    IN First(rows, P)

\* a revocation that takes the other sessions of the user along
revoke_session_of_user(rows, sid, t) ==
    [i \in DOMAIN rows |->
        IF rows[i].user_id = rows[sid].user_id
        THEN [rows[i] EXCEPT !.revoked = TRUE, !.revoked_at = <<utcnow(t)>>]
        ELSE rows[i]]

\* AuthService.revoke_session: the UPDATE of one row by primary key
revoke_session(rows, sid, t) ==
    [rows EXCEPT ![sid].revoked = TRUE, ![sid].revoked_at = <<utcnow(t)>>]

\* AuthService.create_auth_session, from the revocation of the session found
\* to db.add: the rows handed to db.commit()
create_auth_session(rows, existing, user_id, refresh_token, device_id, t) ==
    LET revoked == IF existing # 0 THEN revoke_session(rows, existing, t) ELSE rows
        expires_at == utcnow(t) + RefreshTTL
    IN Append(revoked,
              AuthSession(user_id, device_id, hash_refresh_token(refresh_token),
                          expires_at))

\* a validation that finds revoked sessions too
validate_refresh_token_any(rows, refresh_token, t) ==
    LET payload == verify_token(refresh_token, "refresh", t)
    IN IF payload = <<>> THEN 0
       ELSE IF payload[1].user_id = 0 THEN 0
       ELSE LET P(s) == /\ s.user_id = payload[1].user_id
                        /\ s.refresh_token_hash = hash_refresh_token(refresh_token)
                        /\ s.expires_at > utcnow(t)
            IN First(rows, P)

\* AuthService.validate_refresh_token, its query: the session id, 0 for None
validate_refresh_token(rows, refresh_token, t) ==
    LET payload == verify_token(refresh_token, "refresh", t)
    IN IF payload = <<>> THEN 0
       ELSE IF payload[1].user_id = 0 THEN 0
       ELSE LET P(s) == /\ s.user_id = payload[1].user_id
                        /\ s.refresh_token_hash = hash_refresh_token(refresh_token)
                        /\ s.revoked = FALSE
                        /\ s.expires_at > utcnow(t)
            IN First(rows, P)

\* the filter on the user left out: every row not revoked is updated
revoke_all_user_sessions_unscoped(rows, user_id, t) ==
    [i \in DOMAIN rows |->
        IF rows[i].revoked = FALSE
        THEN [rows[i] EXCEPT !.revoked = TRUE, !.revoked_at = <<utcnow(t)>>]
        ELSE rows[i]]

\* the filter on revoked inverted: only rows already revoked are updated
revoke_all_user_sessions_inverted(rows, user_id, t) ==
    [i \in DOMAIN rows |->
        IF rows[i].user_id = user_id /\ rows[i].revoked = TRUE
        THEN [rows[i] EXCEPT !.revoked = TRUE, !.revoked_at = <<utcnow(t)>>]
        ELSE rows[i]]

\* AuthService.revoke_all_user_sessions
revoke_all_user_sessions(rows, user_id, t) ==
    [i \in DOMAIN rows |->
        IF rows[i].user_id = user_id /\ rows[i].revoked = FALSE
        THEN [rows[i] EXCEPT !.revoked = TRUE, !.revoked_at = <<utcnow(t)>>]
        ELSE rows[i]]

\* a query that does not ask for the device
refresh_session_any_device(rows, user_id, device_id, refresh_token, t) ==
    LET P(s) == /\ s.user_id = user_id
                /\ s.refresh_token_hash = hash_refresh_token(refresh_token)
                /\ s.expires_at > utcnow(t)
    IN First(rows, P)

\* refresh_token, its query: the session of the user on the device holding
\* the hash and not expired, revoked or not; 0 for None
refresh_session(rows, user_id, device_id, refresh_token, t) ==
    LET P(s) == /\ s.user_id = user_id
                /\ s.device_id = device_id
                /\ s.refresh_token_hash = hash_refresh_token(refresh_token)
                /\ s.expires_at > utcnow(t)
    IN First(rows, P)

\* refresh_token, the rotation: the UPDATE of the loaded row by primary key
rotate(rows, sid, new_refresh_token, t) ==
    [rows EXCEPT ![sid].refresh_token_hash = hash_refresh_token(new_refresh_token),
                 ![sid].last_used_at = <<utcnow(t)>>,
                 ![sid].expires_at = utcnow(t) + RefreshTTL]


(* ------------------------------------------------------------- handlers *)
Idle ==
    [op |-> "none", email |-> 0, password |-> "", user_id |-> 0,
     cookie |-> <<>>, device_id |-> 0, sid |-> 0, tokens |-> <<>>]

\* a response: the handler, the HTTP status, the detail of an error, the
\* session it acted on (whose credential a 200 or 201 sets as the
\* refresh_token cookie), the session that held the hash of the credential the
\* handler looked up, and the request.state.user_id the middleware set
NoResp ==
    [op |-> "none", status |-> 0, detail |-> "", sid |-> 0, holder |-> 0,
     user_id |-> 0]

\* an HTTPException: a status, a detail and no cookie
Error(op, status, detail) ==
    [NoResp EXCEPT !.op = op, !.status = status, !.detail = detail]

\* the details of the 401 responses of the handlers
InvalidCredentials == "Invalid email or password"
MissingCookies == "Missing authentication cookies"
InvalidRefreshToken == "Invalid or expired refresh token"
InvalidPayload == "Invalid token payload"
\* a handler that tells a token matching no session from a token rejected
NoMatchingSession_distinct == "No session for this refresh token"

NoMatchingSession == "Invalid or expired refresh token"
InvalidLogout == "Invalid refresh token"

\* the session holding the hash of the presented cookie, 0 for none
Holder(rows, cookie) ==
    LET P(s) == cookie # <<>> /\ s.refresh_token_hash = hash_refresh_token(cookie[1])
    IN First(rows, P)

\* the refresh tokens the server can have signed: one per user and second
RefreshTokens ==
    {Token(u, t, RefreshTTL, "refresh") : u \in DOMAIN users, t \in 0..now}

\* what a client can put in the refresh_token cookie: nothing, a refresh
\* token of the server (one that was never handed out is in no session and is
\* answered like one rotated away), an access token, a token it signed itself
Cookies ==
    {<<>>} \cup {<<r>> : r \in RefreshTokens}
           \cup {<<Token(u, now, AccessTTL, "access")>> : u \in DOMAIN users}
           \cup {<<[Token(u, now, RefreshTTL, "refresh") EXCEPT !.sig = "forged"]>> :
                    u \in DOMAIN users}

\* the cookies of a refresh or logout request, <<refresh_token, device_id>>,
\* device_id 0 for none: a refresh token with any device id; every other
\* cookie with one device id, the handlers reading none before rejecting it
Presented ==
    {<<<<r>>, d>> : r \in RefreshTokens, d \in DeviceIds}
        \cup {<<c, 1>> : c \in Cookies}
        \cup {<<c, 0>> : c \in {<<r>> : r \in RefreshTokens}}

InitBase ==
    /\ users = <<>>
    /\ sessions = <<>>
    /\ now = 0
    /\ pc = [p \in Procs |-> "idle"]
    /\ local = [p \in Procs |-> Idle]
    /\ last = NoResp

Return(p, r) ==
    /\ pc' = [pc EXCEPT ![p] = "idle"]
    /\ local' = [local EXCEPT ![p] = Idle]
    /\ last' = r

Goto(p, label, l) ==
    /\ pc' = [pc EXCEPT ![p] = label]
    /\ local' = [local EXCEPT ![p] = l]
    /\ last' = NoResp

(* -------------------------------------------------------------- history *)
InitHistory ==
    /\ rotated = {}
    /\ contested = [p \in Procs |-> FALSE]
    /\ refreshed = {}
    /\ revokedHashes = {}

\* the handlers whose refresh returns 200 in this step (at most one)
Rotating == {p \in Procs : pc[p] = "refresh_write" /\ pc'[p] = "idle"
                              /\ last'.status = 200}

\* the handlers whose refresh passes its query in this step
Arriving == {p \in Procs : pc[p] = "idle" /\ pc'[p] = "refresh_write"}

\* the refresh token a successful refresh of handler p returns in this step
Returned(p) == sessions'[local[p].sid].refresh_token_hash[2]

\* the sessions this step revokes
Revoking ==
    {i \in DOMAIN sessions' :
        sessions'[i].revoked /\ (i \in DOMAIN sessions => ~sessions[i].revoked)}

\* the record a step leaves, once it has set the program's variables.
\* rotated drops a token that has expired: verify_token rejects it whatever
\* the store holds.  refreshed drops a token of an earlier second:
\* generate_tokens stamps the current second, so it is never returned again
Observe ==
    /\ rotated' = {r \in rotated \cup {local[p].cookie[1] : p \in Rotating} :
                        r.exp > now'}
    /\ contested' = [q \in Procs |->
                        IF pc'[q] # "refresh_write" \/ q \in Arriving THEN FALSE
                        ELSE \/ contested[q]
                             \/ \E p \in Rotating :
                                   /\ local[p].cookie = local[q].cookie
                                   /\ local[p].sid = local[q].sid]
    /\ refreshed' = {r \in refreshed \cup {Returned(p) : p \in Rotating} :
                          r.iat = now'}
    /\ revokedHashes' = revokedHashes
                            \cup {sessions'[i].refresh_token_hash : i \in Revoking}
    /\ UNCHANGED <<cap, queue, worker, jobs, wlast>>
    /\ UNCHANGED uploadvars

(* ------------------------------------------------------------- requests *)
\* the model's cap on the rows of auth_sessions: no request that may insert
\* one starts when the table, with the inserts in flight, is full
Room ==
    Len(sessions) + Cardinality({q \in Procs : pc[q] \in
        {"register_insert", "register_session", "login_session"}}) < cap.sessions

\* the model's cap on the rows of users: the addresses registered or being
\* registered
Registering ==
    {users[i].email : i \in DOMAIN users}
        \cup {local[q].email : q \in {r \in Procs : pc[r] = "register_insert"}}

\* POST /auth/register up to create_user's query
RegisterQuery(p, email, password) ==
    /\ pc[p] = "idle"
    /\ Room
    /\ email \in Registering \/ Cardinality(Registering) < cap.users
    /\ LET ByEmail(u) == u.email = email
       IN IF First(users, ByEmail) # 0
          THEN Return(p, Error("register", 400,
                               "User with this email already exists"))
          ELSE Goto(p, "register_insert",
                    [Idle EXCEPT !.op = "register", !.email = email,
                                 !.password = password])
    /\ UNCHANGED <<users, sessions, now>>
    /\ Observe

\* register: create_user's INSERT and commit, then uuid4, generate_tokens and
\* create_auth_session's query
RegisterInsert(p) ==
    /\ pc[p] = "register_insert"
    /\ LET rows == Append(users, User(local[p].email,
                                      hash_password(local[p].password)))
           id == Len(rows)
       IN IF ~uq_user_email(rows)
          THEN /\ Return(p, Error("register", 500,
                                  "Internal server error during registration"))
               /\ UNCHANGED users
          ELSE /\ users' = rows
               /\ \E d \in uuid4 :
                    Goto(p, "register_session",
                         [Idle EXCEPT !.op = "register", !.user_id = id,
                                      !.device_id = d,
                                      !.tokens = generate_tokens(id, utcnow(now)),
                                      !.sid = existing_session(sessions, id, d)])
    /\ UNCHANGED <<sessions, now>>
    /\ Observe

\* create_auth_session from the revocation of the session found to the commit,
\* and the handler's response
CreateSession(p, op, status, detail) ==
    LET l == local[p]
        rows == create_auth_session(sessions, l.sid, l.user_id, l.tokens[2],
                                    l.device_id, now)
    IN IF ~SessionsIntegrity(rows)
       THEN /\ Return(p, Error(op, 500, detail))
            /\ UNCHANGED sessions
       ELSE /\ sessions' = rows
            /\ Return(p, [NoResp EXCEPT !.op = op, !.status = status,
                                        !.sid = Len(rows)])

\* register: the rest of create_auth_session and the cookies
RegisterSession(p) ==
    /\ pc[p] = "register_session"
    /\ CreateSession(p, "register", 201,
                     "Internal server error during registration")
    /\ UNCHANGED <<users, now>>
    /\ Observe

\* POST /auth/login up to create_auth_session's query
LoginAuth(p, email, password) ==
    /\ pc[p] = "idle"
    /\ Room
    /\ LET id == authenticate_user(users, email, password)
       IN IF id = 0
          THEN Return(p, Error("login", 401, InvalidCredentials))
          ELSE \E d \in uuid4 :
                 Goto(p, "login_session",
                      [Idle EXCEPT !.op = "login", !.user_id = id,
                                   !.device_id = d,
                                   !.tokens = generate_tokens(id, utcnow(now)),
                                   !.sid = existing_session(sessions, id, d)])
    /\ UNCHANGED <<users, sessions, now>>
    /\ Observe

\* login: the rest of create_auth_session and the cookies
LoginSession(p) ==
    /\ pc[p] = "login_session"
    /\ CreateSession(p, "login", 200, "Internal server error during login")
    /\ UNCHANGED <<users, now>>
    /\ Observe

\* POST /auth/refresh up to the session query, the reuse branch included
RefreshQuery(p, cookie, device_id) ==
    /\ pc[p] = "idle"
    /\ LET Fail(status, detail) ==
               [Error("refresh", status, detail)
                   EXCEPT !.holder = Holder(sessions, cookie)]
           payload == verify_token(cookie[1], "refresh", now)
           user_id == payload[1].user_id
           sid == refresh_session(sessions, user_id, device_id, cookie[1], now)
       IN IF cookie = <<>> \/ device_id = 0
          THEN /\ Return(p, Error("refresh", 401, MissingCookies))
               /\ UNCHANGED sessions
          ELSE IF payload = <<>>
          THEN /\ Return(p, Fail(401, InvalidRefreshToken))
               /\ UNCHANGED sessions
          ELSE IF user_id = 0
          THEN /\ Return(p, Fail(401, InvalidPayload))
               /\ UNCHANGED sessions
          ELSE IF sid = 0
          THEN /\ Return(p, Fail(401, NoMatchingSession))
               /\ UNCHANGED sessions
          ELSE IF sessions[sid].revoked
          THEN /\ sessions' = revoke_all_user_sessions(sessions, user_id, now)
               /\ Return(p, [Fail(403, "Token reuse detected")
                                 EXCEPT !.sid = sid])
          ELSE /\ Goto(p, "refresh_write",
                       [Idle EXCEPT !.op = "refresh", !.cookie = cookie,
                                    !.sid = sid])
               /\ UNCHANGED sessions
    /\ UNCHANGED <<users, now>>
    /\ Observe

\* refresh: generate_tokens, the UPDATE of the loaded session, the commit and
\* the cookies
RefreshWrite(p) ==
    /\ pc[p] = "refresh_write"
    /\ LET l == local[p]
           tokens == generate_tokens(sessions[l.sid].user_id, utcnow(now))
           rows == rotate(sessions, l.sid, tokens[2], now)
       IN IF ~SessionsIntegrity(rows)
          THEN /\ Return(p, [Error("refresh", 500,
                                      "Internal server error during token refresh")
                                EXCEPT !.sid = l.sid, !.holder = l.sid])
               /\ UNCHANGED sessions
          ELSE /\ sessions' = rows
               /\ Return(p, [NoResp EXCEPT !.op = "refresh", !.status = 200,
                                           !.sid = l.sid, !.holder = l.sid])
    /\ UNCHANGED <<users, now>>
    /\ Observe

\* POST /auth/logout: validate_refresh_token with its commit of last_used_at,
\* then revoke_session with its commit.  The two commits follow each other
\* with no statement between them and are taken as one step
Logout(p, cookie, device_id) ==
    /\ pc[p] = "idle"
    /\ LET sid == validate_refresh_token(sessions, cookie[1], now)
           used == [sessions EXCEPT ![sid].last_used_at = <<utcnow(now)>>]
       IN IF cookie = <<>> \/ device_id = 0
          THEN /\ Return(p, Error("logout", 401, MissingCookies))
               /\ UNCHANGED sessions
          ELSE IF sid = 0
          THEN /\ Return(p, [Error("logout", 401, InvalidLogout)
                                EXCEPT !.holder = Holder(sessions, cookie)])
               /\ UNCHANGED sessions
          ELSE /\ sessions' = revoke_session(used, sid, now)
               /\ Return(p, [NoResp EXCEPT !.op = "logout", !.status = 204,
                                           !.sid = sid, !.holder = sid])
    /\ UNCHANGED <<users, now>>
    /\ Observe

\* the clock
Tick ==
    /\ now < MaxTime
    /\ now' = now + 1
    /\ last' = NoResp
    /\ UNCHANGED <<users, sessions, pc, local>>
    /\ Observe

(* ----------------------------------------------------------- middleware *)
\* a path is the sequence of its characters
startswith(path, prefix) ==
    Len(prefix) <= Len(path) /\ SubSeq(path, 1, Len(prefix)) = prefix

\* the paths and prefixes main.py hands to AuthMiddleware
public_paths ==
    {<<"/">>,
     <<"/", "h", "e", "a", "l", "t", "h">>,
     <<"/", "o", "p", "e", "n", "a", "p", "i", ".", "j", "s", "o", "n">>,
     <<"/", "d", "o", "c", "s">>,
     <<"/", "r", "e", "d", "o", "c">>}

public_prefixes == {<<"/", "a", "u", "t", "h">>}

\* a middleware that knows the exact paths only
is_public_path_exact(path) == path \in public_paths

is_public_path(path) ==
    \/ path \in public_paths
    \/ \E prefix \in public_prefixes : startswith(path, prefix)

\* the request went on to its handler, request.state.user_id set or not (0)
Forward(user_id) == [NoResp EXCEPT !.op = "call_next", !.user_id = user_id]

\* a middleware that asks the session store whether the user is still signed in
dispatch_checking_sessions(method, path, cookie, t) ==
    LET payload == verify_token(cookie[1], "access", t)
    IN IF method = "OPTIONS" THEN Forward(0)
       ELSE IF is_public_path(path) THEN Forward(0)
       ELSE IF cookie = <<>>
       THEN Error("dispatch", 401, "Missing authentication cookie")
       ELSE IF \/ payload = <<>>
               \/ payload[1].user_id = 0
               \/ \A i \in DOMAIN sessions :
                     sessions[i].user_id = payload[1].user_id
                         => sessions[i].revoked
       THEN Error("dispatch", 401, "Invalid or expired access token")
       ELSE Forward(payload[1].user_id)

\* AuthMiddleware.dispatch: the response of the middleware to a request with
\* this method, path and auth_token cookie (<<>> for none) at time t
dispatch(method, path, cookie, t) ==
    LET payload == verify_token(cookie[1], "access", t)
    IN IF method = "OPTIONS" THEN Forward(0)
       ELSE IF is_public_path(path) THEN Forward(0)
       ELSE IF cookie = <<>>
       THEN Error("dispatch", 401, "Missing authentication cookie")
       ELSE IF payload = <<>> \/ payload[1].user_id = 0
       THEN Error("dispatch", 401, "Invalid or expired access token")
       ELSE Forward(payload[1].user_id)

\* the requests the middleware is given
Methods == {"GET", "OPTIONS"}

Paths ==
    {<<"/", "h", "e", "a", "l", "t", "h">>,
     <<"/", "h", "e", "a", "l", "t", "h", "z">>,
     <<"/", "a", "u", "t", "h", "/", "m", "e">>,
     <<"/", "a", "u", "t", "h", "o", "r", "s">>,
     <<"/", "v", "i", "d", "e", "o", "s">>}

\* what a client can put in the auth_token cookie: nothing, an access token of
\* the server (expired or not), a refresh token, a token it signed itself, a
\* string that is no token, and a token signed with the key but naming no user
AuthCookies ==
    LET issued == {Token(u, t, AccessTTL, "access") : u \in DOMAIN users,
                                                       t \in 0..now}
    IN {<<>>} \cup {<<a>> : a \in issued}
              \cup {<<r>> : r \in RefreshTokens}
              \cup {<<[a EXCEPT !.sig = "forged"]>> : a \in issued}
              \cup {<<[Token(0, 0, 0, "access") EXCEPT !.sig = "malformed"]>>,
                    <<Token(0, now, AccessTTL, "access")>>}

\* a request passing through AuthMiddleware
Gate(method, path, cookie) ==
    /\ last' = dispatch(method, path, cookie, now)
    /\ UNCHANGED <<users, sessions, now, pc, local>>
    /\ Observe

(* --------------------------------------------------------------- worker *)
\* the page size Worker.run asks receive_messages for
messages_per_page == 10

\* the contents a queue message can have: a JSON object whose action is
\* process_video, a JSON object with another action, JSON that is not an
\* object, and text that is not JSON
Forms == {"process_video", "other_action", "array", "malformed"}

Content(form, video_id) ==
    [form |-> IF form \in {"process_video", "other_action"} THEN "object"
              ELSE form,
     action |-> IF form \in {"process_video", "other_action"} THEN form
                ELSE "",
     video_id |-> video_id]

\* json.loads: text that is not JSON raises JSONDecodeError
json_loads(content) ==
    IF content.form = "malformed"
    THEN [raised |-> "JSONDecodeError", data |-> content]
    ELSE [raised |-> "", data |-> content]

\* the columns the mapped class ProcessingJob declares
ProcessingJobColumns ==
    {"id", "video_id", "user_id", "status", "error_message", "created_at",
     "completed_at"}

\* the declarative constructor: a keyword that is no attribute of the class
\* raises TypeError
ProcessingJob(kwargs) ==
    IF DOMAIN kwargs \subseteq ProcessingJobColumns
    THEN [raised |-> FALSE,
          row |-> kwargs @@ [error_message |-> "None", completed_at |-> "None"]]
    ELSE [raised |-> TRUE, row |-> kwargs]

\* update_job_progress: writes the given fields to the job row in a session
\* of its own; a failure is caught and answered False, the row left as it was
update_job_progress(rows, job_id, fields, ok) ==
    IF ok /\ job_id \in DOMAIN rows
    THEN [rows EXCEPT ![job_id] = fields @@ rows[job_id]]
    ELSE rows

\* what can go wrong inside one process_video call: the statement that raises
\* (the commit of the new row, a pipeline step, the final commit), the
\* update_job_progress call that fails, and whether the commit of the status
\* FAILED fails
Outcomes ==
    [raises_at : {"none", "insert", "transcription", "llm", "cutting",
                  "commit"},
     failed_update : {"none", "queued", "transcription", "llm", "cutting",
                      "done", "error"},
     record_fails : BOOLEAN]

\* VideoProcessor.process_video: the job rows it leaves and whether it raises.
\* A constructor that raises leaves no `job` local and the insert that raises
\* leaves no job.id: the handler records nothing and re-raises.  After a
\* commit that failed the session needs a rollback, so the commit of the
\* status FAILED fails as well; that failure is swallowed
process_video(rows, video_id, outcome) ==
    LET job == ProcessingJob([video_id |-> video_id, user_id |-> 1,
                              status |-> "pending", current_step |-> "queued",
                              progress_percentage |-> 10,
                              created_at |-> "utcnow"])
        id == Len(rows) + 1
        progress(rs, step, percentage) ==
            update_job_progress(rs, id, [current_step |-> step,
                                         progress_percentage |-> percentage],
                                outcome.failed_update # step)
        r1 == progress(Append(rows, job.row), "queued", 10)
        r2 == progress(r1, "transcription", 40)
        r3 == progress(r2, "llm", 55)
        r4 == progress(r3, "cutting", 85)
        r5 == progress(r4, "done", 100)
        reached == CASE outcome.raises_at = "transcription" -> r2
                     [] outcome.raises_at = "llm" -> r3
                     [] outcome.raises_at = "cutting" -> r4
                     [] OTHER -> r5
        noted == update_job_progress(reached, id,
                                     [current_step |-> "error",
                                      error_message |-> "str(e)"],
                                     outcome.failed_update # "error")
        finish(rs, status) ==
            [rs EXCEPT ![id] = [status |-> status, completed_at |-> "utcnow"]
                                   @@ rs[id]]
    IN  IF job.raised \/ outcome.raises_at = "insert"
        THEN [jobs |-> rows, raised |-> TRUE]
        ELSE IF outcome.raises_at = "none"
        THEN [jobs |-> finish(r5, "completed"), raised |-> FALSE]
        ELSE IF outcome.record_fails \/ outcome.raises_at = "commit"
        THEN [jobs |-> noted, raised |-> TRUE]
        ELSE [jobs |-> finish(noted, "failed"), raised |-> TRUE]

\* queue_client.delete_message
delete_message(q, m) == [i \in DOMAIN q \ {m} |-> q[i]]

\* Worker.process_message on message m.  delete_ok: the queue accepts the
\* delete_message call (otherwise the call raises).  handler: whether the
\* handler of the action was entered and how it ended; escaped: an exception
\* leaves process_message
process_message(q, rows, m, outcome, delete_ok) ==
    LET content == q[m].content
        parsed == json_loads(content)
        handled == IF content.action = "process_video"
                   THEN process_video(rows, content.video_id, outcome)
                   ELSE [jobs |-> rows, raised |-> FALSE]
    IN  IF parsed.raised = "JSONDecodeError"
        THEN IF delete_ok
             THEN [queue |-> delete_message(q, m), jobs |-> rows,
                   handler |-> "none", escaped |-> FALSE]
             ELSE [queue |-> q, jobs |-> rows,
                   handler |-> "none", escaped |-> TRUE]
        ELSE IF parsed.data.form # "object"
        THEN [queue |-> q, jobs |-> rows,
              handler |-> "none", escaped |-> FALSE]
        ELSE IF handled.raised
        THEN [queue |-> q, jobs |-> handled.jobs,
              handler |-> "raised", escaped |-> FALSE]
        ELSE IF delete_ok
        THEN [queue |-> delete_message(q, m), jobs |-> handled.jobs,
              handler |-> "returned", escaped |-> FALSE]
        ELSE [queue |-> q, jobs |-> handled.jobs,
              handler |-> "returned", escaped |-> FALSE]

NoEvent ==
    [op |-> "none", id |-> 0, handler |-> "none", deleted |-> FALSE,
     escaped |-> FALSE]

Event(op) == [NoEvent EXCEPT !.op = op]

RECURSIVE Ascending(_)
Ascending(S) ==
    IF S = {} THEN <<>>
    ELSE LET least == CHOOSE x \in S : \A y \in S : x <= y
         IN  <<least>> \o Ascending(S \ {least})

\* the page receive_messages returns: the visible messages, oldest first
Page(q) ==
    LET visible == Ascending({i \in DOMAIN q : q[i].visible})
    IN  IF Len(visible) <= messages_per_page THEN visible
        ELSE SubSeq(visible, 1, messages_per_page)

\* Worker.__init__, with no message in the queue and no job
InitWorker ==
    /\ queue = <<>>
    /\ worker = [running |-> TRUE, batch |-> <<>>]
    /\ jobs = <<>>
    /\ wlast = NoEvent

\* Worker.run fetches a page: the messages it returns become invisible; or
\* the call raises and the loop polls again
Receive(ok) ==
    /\ worker.running
    /\ worker.batch = <<>>
    /\ IF ok
       THEN /\ queue' = [i \in DOMAIN queue |->
                            [queue[i] EXCEPT !.visible = FALSE]]
            /\ worker' = [worker EXCEPT !.batch = Page(queue)]
            /\ wlast' = Event("receive")
       ELSE /\ wlast' = Event("receive_error")
            /\ UNCHANGED <<queue, worker>>
    /\ UNCHANGED jobs
    /\ UNCHANGED authvars
    /\ UNCHANGED uploadvars

\* Worker.run hands the next message of the page to process_message; an
\* exception that leaves process_message ends the iteration over the page
ProcessMessage(outcome, delete_ok) ==
    /\ worker.running
    /\ worker.batch # <<>>
    /\ Len(jobs) < MaxJobs
    /\ LET m == Head(worker.batch)
           r == process_message(queue, jobs, m, outcome, delete_ok)
       IN  /\ queue' = r.queue
           /\ jobs' = r.jobs
           /\ worker' = [worker EXCEPT !.batch = IF r.escaped THEN <<>>
                                                  ELSE Tail(worker.batch)]
           /\ wlast' = [op |-> "process_message", id |-> m,
                        handler |-> r.handler,
                        deleted |-> m \notin DOMAIN r.queue,
                        escaped |-> r.escaped]
    /\ UNCHANGED authvars
    /\ UNCHANGED uploadvars

\* the visibility timeout of a received message runs out
VisibilityTimeout(m) ==
    /\ m \in DOMAIN queue
    /\ ~queue[m].visible
    /\ queue' = [queue EXCEPT ![m].visible = TRUE]
    /\ wlast' = NoEvent
    /\ UNCHANGED <<worker, jobs>>
    /\ UNCHANGED authvars
    /\ UNCHANGED uploadvars

\* KeyboardInterrupt ends the loop
Interrupt ==
    /\ worker.running
    /\ worker' = [running |-> FALSE, batch |-> <<>>]
    /\ wlast' = Event("interrupt")
    /\ UNCHANGED <<queue, jobs>>
    /\ UNCHANGED authvars
    /\ UNCHANGED uploadvars

(* --------------------------------------------------------------- upload *)
\* Video(user_id, blob_url, duration_seconds=None)
Video(user_id, blob_url) ==
    [user_id |-> user_id, blob_url |-> blob_url, duration_seconds |-> "None"]

\* verify_blob_exists: a storage error is answered False
verify_blob_exists(bs, blob_name, storage_ok) ==
    storage_ok /\ blob_name \in bs

\* get_blob_url: the address of the blob, its name last
get_blob_url(blob_name) == <<"https://", "container", blob_name>>

\* QueueService.send_message: the queue with the message and True, or the
\* queue as it was and False when the client cannot be built or the send
\* raises.  json.dumps writes the dictionary as a JSON object
send_message(q, id, message_data, send_ok) ==
    IF send_ok
    THEN [queue |-> [i \in DOMAIN q \cup {id} |->
                        IF i = id
                        THEN [content |-> Content(message_data.action,
                                                  message_data.video_id),
                              visible |-> TRUE]
                        ELSE q[i]],
          sent |-> TRUE]
    ELSE [queue |-> q, sent |-> FALSE]

\* send_video_processing_message
send_video_processing_message(q, id, video_id, send_ok) ==
    send_message(q, id, [video_id |-> video_id, action |-> "process_video"],
                 send_ok)

NoUpload ==
    [op |-> "none", status |-> 0, exists |-> FALSE, video_id |-> 0,
     queue_message_sent |-> FALSE]

\* verify_upload, variant: the video row is taken back when the send fails
verify_upload_rollback(vs, q, bs, id, user_id, blob_name, storage_ok, db, send_ok) ==
    LET video_id == Len(vs) + 1
        stored == Append(vs, Video(user_id, get_blob_url(blob_name)))
        queued == send_video_processing_message(q, id, video_id, send_ok)
    IN  IF ~verify_blob_exists(bs, blob_name, storage_ok)
        THEN [videos |-> vs, queue |-> q,
              response |-> [NoUpload EXCEPT !.op = "verify_upload",
                                            !.status = 200]]
        ELSE IF db = "commit_raises"
        THEN [videos |-> vs, queue |-> q,
              response |-> [NoUpload EXCEPT !.op = "verify_upload",
                                            !.status = 500]]
        ELSE IF db = "refresh_raises"
        THEN [videos |-> stored, queue |-> q,
              response |-> [NoUpload EXCEPT !.op = "verify_upload",
                                            !.status = 500]]
        ELSE [videos |-> IF queued.sent THEN stored ELSE vs,
              queue |-> queued.queue,
              response |-> [op |-> "verify_upload", status |-> 200,
                            exists |-> TRUE, video_id |-> video_id,
                            queue_message_sent |-> queued.sent]]

\* verify_upload: the videos, the queue and the response it leaves.  db: the
\* commit of the video row raises (the handler rolls back and answers 500),
\* the refresh after the commit raises (the row is committed already), or
\* neither.  id: the id the queue gives a new message
verify_upload(vs, q, bs, id, user_id, blob_name, storage_ok, db, send_ok) ==
    LET video_id == Len(vs) + 1
        stored == Append(vs, Video(user_id, get_blob_url(blob_name)))
        queued == send_video_processing_message(q, id, video_id, send_ok)
    IN  IF ~verify_blob_exists(bs, blob_name, storage_ok)
        THEN [videos |-> vs, queue |-> q,
              response |-> [NoUpload EXCEPT !.op = "verify_upload",
                                            !.status = 200]]
        ELSE IF db = "commit_raises"
        THEN [videos |-> vs, queue |-> q,
              response |-> [NoUpload EXCEPT !.op = "verify_upload",
                                            !.status = 500]]
        ELSE IF db = "refresh_raises"
        THEN [videos |-> stored, queue |-> q,
              response |-> [NoUpload EXCEPT !.op = "verify_upload",
                                            !.status = 500]]
        ELSE [videos |-> stored, queue |-> queued.queue,
              response |-> [op |-> "verify_upload", status |-> 200,
                            exists |-> TRUE, video_id |-> video_id,
                            queue_message_sent |-> queued.sent]]

InitUpload ==
    /\ videos = <<>>
    /\ blobs = {}
    /\ vlast = NoUpload
    /\ enqueued = {}

\* the client puts a blob into the container through its SAS URL
Upload(blob_name) ==
    /\ blob_name \notin blobs
    /\ blobs' = blobs \cup {blob_name}
    /\ UNCHANGED <<videos, vlast, enqueued>>
    /\ UNCHANGED <<queue, worker, jobs, wlast>>
    /\ UNCHANGED authvars

\* GET /videoInputOutput/verify-upload/{blob_name} of an authenticated user
VerifyUpload(user_id, blob_name, storage_ok, db, send_ok) ==
    /\ user_id \in DOMAIN users
    /\ Len(videos) < MaxVideos
    /\ Cardinality(enqueued) < MaxMessages
    /\ LET r == verify_upload(videos, queue, blobs, Cardinality(enqueued) + 1,
                              user_id, blob_name, storage_ok, db, send_ok)
       IN  /\ videos' = r.videos
           /\ queue' = r.queue
           /\ vlast' = r.response
           /\ enqueued' = IF r.response.queue_message_sent
                          THEN enqueued \cup {r.response.video_id}
                          ELSE enqueued
    /\ UNCHANGED <<blobs, worker, jobs, wlast>>
    /\ UNCHANGED authvars

Init ==
    /\ InitBase
    /\ InitHistory
    /\ cap = [users |-> MaxUsers, sessions |-> MaxSessions]
    /\ InitWorker
    /\ InitUpload

Next ==
    \/ \E p \in Procs, e \in Emails, pw \in RegPasswords : RegisterQuery(p, e, pw)
    \/ \E p \in Procs : RegisterInsert(p)
    \/ \E p \in Procs : RegisterSession(p)
    \/ \E p \in Procs, e \in Emails, pw \in Passwords : LoginAuth(p, e, pw)
    \/ \E p \in Procs : LoginSession(p)
    \/ \E p \in Procs, r \in Presented : RefreshQuery(p, r[1], r[2])
    \/ \E p \in Procs : RefreshWrite(p)
    \/ \E p \in Procs, r \in Presented : Logout(p, r[1], r[2])
    \/ Tick

Spec == Init /\ [][Next]_vars

\* one handler at a time behind the middleware: registrations and logouts put
\* users and sessions, revoked or not, under the requests the middleware sees
NextGate ==
    \/ \E e \in Emails, pw \in RegPasswords : RegisterQuery(1, e, pw)
    \/ RegisterInsert(1)
    \/ RegisterSession(1)
    \/ \E r \in Presented : Logout(1, r[1], r[2])
    \/ Tick
    \/ \E m \in Methods, path \in Paths, c \in AuthCookies : Gate(m, path, c)

SpecGate == Init /\ [][NextGate]_vars

\* one handler at a time with room for two users: the session of one user
\* beside the session of another
InitWide ==
    /\ InitBase
    /\ InitHistory
    /\ cap = [users |-> WideUsers, sessions |-> MaxSessions]
    /\ InitWorker
    /\ InitUpload

NextWide ==
    \/ \E e \in Emails, pw \in RegPasswords : RegisterQuery(1, e, pw)
    \/ RegisterInsert(1)
    \/ RegisterSession(1)
    \/ \E e \in Emails, pw \in Passwords : LoginAuth(1, e, pw)
    \/ LoginSession(1)
    \/ \E r \in Presented : RefreshQuery(1, r[1], r[2])
    \/ RefreshWrite(1)
    \/ \E r \in Presented : Logout(1, r[1], r[2])
    \/ Tick

SpecWide == InitWide /\ [][NextWide]_vars

\* the worker over a queue that holds MaxMessages messages of any content
InitQueue ==
    /\ InitBase
    /\ InitHistory
    /\ cap = [users |-> MaxUsers, sessions |-> MaxSessions]
    /\ \E f \in [MsgIds -> Forms] :
          queue = [i \in MsgIds |-> [content |-> Content(f[i], i),
                                     visible |-> TRUE]]
    /\ worker = [running |-> TRUE, batch |-> <<>>]
    /\ jobs = <<>>
    /\ wlast = NoEvent
    /\ InitUpload

NextWorker ==
    \/ \E ok \in BOOLEAN : Receive(ok)
    \/ \E outcome \in Outcomes, delete_ok \in BOOLEAN :
          ProcessMessage(outcome, delete_ok)
    \/ \E m \in MsgIds : VisibilityTimeout(m)
    \/ Interrupt

SpecWorker == InitQueue /\ [][NextWorker]_vars

\* uploads of registered users beside the worker, the queue empty at first
NextUpload ==
    \/ \E e \in Emails, pw \in RegPasswords : RegisterQuery(1, e, pw)
    \/ RegisterInsert(1)
    \/ RegisterSession(1)
    \/ \E b \in BlobNames : Upload(b)
    \/ \E u \in 1..MaxUsers, b \in BlobNames, storage_ok \in BOOLEAN,
          db \in {"ok", "commit_raises", "refresh_raises"},
          send_ok \in BOOLEAN :
          VerifyUpload(u, b, storage_ok, db, send_ok)
    \/ \E ok \in BOOLEAN : Receive(ok)
    \/ \E outcome \in Outcomes, delete_ok \in BOOLEAN :
          ProcessMessage(outcome, delete_ok)
    \/ \E m \in MsgIds : VisibilityTimeout(m)
    \/ Interrupt

SpecUpload == Init /\ [][NextUpload]_vars

TypeOK ==
    /\ now \in Time
    /\ Len(users) <= cap.users
    /\ Len(sessions) <= cap.sessions
    /\ \A p \in Procs : pc[p] \in {"idle", "register_insert", "register_session",
                                   "login_session", "refresh_write"}
    /\ DOMAIN queue \subseteq MsgIds
    /\ \A i \in DOMAIN queue : queue[i].visible \in BOOLEAN
    /\ worker.running \in BOOLEAN
    /\ \A i \in DOMAIN worker.batch : worker.batch[i] \in DOMAIN queue
    /\ Len(jobs) <= MaxJobs
    /\ Len(videos) <= MaxVideos
    /\ blobs \subseteq BlobNames
    /\ enqueued \subseteq DOMAIN videos
    /\ vlast.status \in {0, 200, 500}
    /\ wlast.op \in {"none", "receive", "receive_error", "process_message",
                     "interrupt"}

(* --------------------------------------------------------------- claims *)
\* the step is one of the refresh handler's first part
RefreshStep ==
    \/ last'.op = "refresh"
    \/ \E p \in Procs : pc[p] = "idle" /\ pc'[p] = "refresh_write"

\* every session of the user is revoked
AllRevoked(rows, user_id) ==
    \A i \in DOMAIN rows : rows[i].user_id = user_id => rows[i].revoked

\* the credential whose hash session h holds
Current(rows, h) == rows[h].refresh_token_hash[2]

\* C1 (race safety): a refresh in flight that a concurrent refresh of the same
\* credential and session has overtaken with a 200 does not succeed: it fails
\* with 401
C1_RaceSafety ==
    [][\A q \in Procs :
          (pc[q] = "refresh_write" /\ contested[q] /\ pc'[q] = "idle")
              => last'.status = 401]_vars

\* C2 (uniqueness): a (user id, device id) pair has at most one session that
\* is not revoked
C2_ActiveSessionUnique ==
    \A i, j \in DOMAIN sessions :
        (/\ sessions[i].user_id = sessions[j].user_id
         /\ sessions[i].device_id = sessions[j].device_id
         /\ ~sessions[i].revoked
         /\ ~sessions[j].revoked) => i = j

\* a login has created a session for a user who holds another active one
C2_Witness ==
    /\ last.op = "login" /\ last.status = 200
    /\ \E i \in DOMAIN sessions :
          /\ i # last.sid
          /\ sessions[i].user_id = sessions[last.sid].user_id
          /\ ~sessions[i].revoked

\* C3 (rotation monotonicity): a refresh presenting a credential that a
\* successful refresh has presented before fails with 401 or 403
C3_RotationMonotone ==
    [][\A p \in Procs, r \in rotated, d \in DeviceIds :
          RefreshQuery(p, <<r>>, d) => last'.status \in {401, 403}]_vars

C5_ReplayRevokesAll ==
    [][\A p \in Procs, r \in rotated, i \in DOMAIN sessions :
          (/\ Holder(sessions, <<r>>) = 0
           /\ sessions[i].user_id = r.user_id
           /\ RefreshQuery(p, <<r>>, sessions[i].device_id))
              => AllRevoked(sessions', r.user_id)]_vars

\* C6 (revocation terminal): a revoked session stays revoked, and the hash a
\* session held when it was revoked is never the hash of a session that is not
\* revoked
C6_RevocationTerminal ==
    [][/\ \A i \in DOMAIN sessions : sessions[i].revoked => sessions'[i].revoked
       /\ \A i \in DOMAIN sessions' :
             ~sessions'[i].revoked
                 => sessions'[i].refresh_token_hash \notin revokedHashes']_vars

\* C7 (expiry independence): a refresh presenting, with its device id, the
\* current credential of a session that is not revoked and whose expires_at
\* is not after now fails with 401 and changes no session
C7_ExpiryIndependence ==
    [][\A p \in Procs, h \in DOMAIN sessions :
          (/\ ~sessions[h].revoked
           /\ sessions[h].expires_at <= now
           /\ RefreshQuery(p, <<Current(sessions, h)>>, sessions[h].device_id))
              => (last'.status = 401 /\ sessions' = sessions)]_vars

\* a refresh presenting the credential of an expired session that is not
\* revoked has been answered 401
C7_Witness ==
    /\ last.op = "refresh" /\ last.status = 401
    /\ last.holder # 0
    /\ ~sessions[last.holder].revoked
    /\ sessions[last.holder].expires_at <= now

\* C8 (rotation is a conditional update): a refresh whose session, at the
\* moment of its write, is revoked or no longer holds the hash of the
\* presented credential does not succeed and changes neither the hash nor
\* expires_at of the session
C8_ConditionalRotation ==
    [][\A p \in Procs :
          (/\ pc[p] = "refresh_write"
           /\ \/ sessions[local[p].sid].revoked
              \/ sessions[local[p].sid].refresh_token_hash
                    # hash_refresh_token(local[p].cookie[1])
           /\ RefreshWrite(p))
              => (/\ last'.status # 200
                  /\ sessions'[local[p].sid].refresh_token_hash
                        = sessions[local[p].sid].refresh_token_hash
                  /\ sessions'[local[p].sid].expires_at
                        = sessions[local[p].sid].expires_at)]_vars

\* C9: no two successful refresh responses carry the same new refresh
\* credential
C9_FreshPerRefresh ==
    [][\A p \in Rotating : Returned(p) \notin refreshed]_vars

\* C10 (hash uniqueness): no two session records hold the same hash
C10_HashUnique ==
    \A i, j \in DOMAIN sessions :
        sessions[i].refresh_token_hash = sessions[j].refresh_token_hash => i = j

\* a rotation towards a hash another session holds has been refused
C10_Witness ==
    /\ last.op = "refresh" /\ last.status = 500
    /\ \E i \in DOMAIN sessions :
          /\ i # last.sid
          /\ sessions[i].refresh_token_hash
                = hash_refresh_token(generate_tokens(sessions[last.sid].user_id, now)[2])

\* C11: when create_auth_session runs for a pair (user, device) that has a
\* non-revoked session, the request succeeds, that session is left revoked
\* with its revoked_at set, and the pair has exactly one non-revoked session
C11_CreateOrReplace ==
    [][\A p \in Procs :
          (/\ pc[p] \in {"register_session", "login_session"}
           /\ pc'[p] = "idle"
           /\ local[p].sid # 0
           /\ ~sessions[local[p].sid].revoked)
              => (/\ last'.status \in {200, 201}
                  /\ sessions'[local[p].sid].revoked
                  /\ sessions'[local[p].sid].revoked_at # <<>>
                  /\ Cardinality({i \in DOMAIN sessions' :
                         /\ sessions'[i].user_id = local[p].user_id
                         /\ sessions'[i].device_id = local[p].device_id
                         /\ ~sessions'[i].revoked}) = 1)]_vars

\* C12: the middleware forwards a request if and only if its method is OPTIONS,
\* or its path is a public path or starts with a public prefix, or its
\* auth_token cookie is a well-signed, unexpired access token naming a user,
\* and then request.state.user_id is that user; every other request is
\* answered 401
C12_GateIff ==
    [][\A m \in Methods, path \in Paths, c \in AuthCookies :
          (last'.op \in {"call_next", "dispatch"} /\ Gate(m, path, c)) =>
            LET open == \/ m = "OPTIONS"
                        \/ path \in public_paths
                        \/ \E prefix \in public_prefixes :
                              startswith(path, prefix)
                valid == /\ c # <<>>
                         /\ c[1].sig = "ok"
                         /\ c[1].exp > now
                         /\ c[1].type = "access"
                         /\ c[1].user_id # 0
            IN /\ last'.op = "call_next" <=> (open \/ valid)
               /\ (~open /\ valid) => last'.user_id = c[1].user_id
               /\ ~(open \/ valid) => last'.status = 401]_vars

\* a request was forwarded on its access token
C12_Witness ==
    /\ last.op = "call_next"
    /\ last.user_id \in DOMAIN users

\* C13: a request through the middleware leaves users and sessions as they
\* were, and an unexpired access token is forwarded with its user id even when
\* every session of that user is revoked
C13_GateStateless ==
    [][\A m \in Methods, path \in Paths, c \in AuthCookies :
          (last'.op \in {"call_next", "dispatch"} /\ Gate(m, path, c)) =>
              /\ users' = users
              /\ sessions' = sessions
              /\ (/\ c # <<>>
                  /\ c[1].sig = "ok"
                  /\ c[1].type = "access"
                  /\ c[1].exp > now
                  /\ c[1].user_id \in DOMAIN users
                  /\ AllRevoked(sessions, c[1].user_id))
                     => (/\ last'.op = "call_next"
                         /\ m # "OPTIONS" /\ ~is_public_path(path)
                               => last'.user_id = c[1].user_id)]_vars

\* a request was forwarded on the access token of a user whose sessions are
\* all revoked
C13_Witness ==
    /\ last.op = "call_next"
    /\ last.user_id \in DOMAIN users
    /\ \E i \in DOMAIN sessions : sessions[i].user_id = last.user_id
    /\ AllRevoked(sessions, last.user_id)

\* C14: verify_token answers every token a client can present, with the
\* token's payload or with the failure value, and with the payload only when
\* the signature is the server's, the token has not expired and its type is the
\* expected one
C14_VerifyToken ==
    \A c \in (AuthCookies \cup Cookies) \ {<<>>}, ty \in {"access", "refresh"} :
        LET r == verify_token(c[1], ty, now)
        IN /\ r \in {<<>>, <<[user_id |-> c[1].user_id, type |-> c[1].type]>>}
           /\ r # <<>> <=> (c[1].sig = "ok" /\ c[1].exp > now /\ c[1].type = ty)

\* the middleware has rejected a token while an expired access token, a
\* refresh token and a valid access token of a user can all be presented
C14_Witness ==
    /\ last.op = "dispatch"
    /\ last.detail = "Invalid or expired access token"
    /\ \E c \in AuthCookies \ {<<>>} :
          c[1].sig = "ok" /\ c[1].type = "access" /\ c[1].exp <= now
    /\ \E c \in AuthCookies \ {<<>>} :
          verify_token(c[1], "access", now) # <<>>
    /\ \E c \in AuthCookies \ {<<>>} :
          c[1].sig = "ok" /\ c[1].type = "refresh" /\ c[1].exp > now

\* C15: a logout presenting the credential a session holds together with a
\* device id other than that session's is answered 401 and revokes nothing
C15_LogoutDeviceBinding ==
    [][\A p \in Procs, h \in DOMAIN sessions, d \in DeviceIds :
          (/\ d # sessions[h].device_id
           /\ Logout(p, <<Current(sessions, h)>>, d))
              => (last'.status = 401 /\ sessions' = sessions)]_vars

\* C16: a refresh presenting the credential a session holds together with a
\* device id other than that session's is answered 401, revokes nothing and
\* leaves the sessions as they were
C16_RefreshDeviceBinding ==
    [][\A p \in Procs, h \in DOMAIN sessions, d \in DeviceIds :
          (/\ RefreshStep
           /\ d # sessions[h].device_id
           /\ RefreshQuery(p, <<Current(sessions, h)>>, d))
              => (/\ last'.op = "refresh"
                  /\ last'.status = 401
                  /\ sessions' = sessions)]_vars

\* a refresh was answered 401 although its credential verifies and is held by
\* a session neither revoked nor expired: the device id was another one
C16_Witness ==
    /\ last.op = "refresh"
    /\ last.status = 401
    /\ last.detail = NoMatchingSession
    /\ last.holder # 0
    /\ ~sessions[last.holder].revoked
    /\ sessions[last.holder].expires_at > now
    /\ verify_token(Current(sessions, last.holder), "refresh", now) # <<>>

\* C17: a registration whose email is already a user's, whether it finds the
\* user with its query or, overtaken by another registration, at its insert,
\* is answered 400 and creates neither a user nor a session
C17_RegisterDuplicate ==
    [][\A p \in Procs, e \in Emails :
          (/\ \E i \in DOMAIN users : users[i].email = e
           /\ \/ \E pw \in RegPasswords : RegisterQuery(p, e, pw)
              \/ local[p].email = e /\ RegisterInsert(p))
              => (/\ last'.op = "register"
                  /\ last'.status = 400
                  /\ users' = users
                  /\ sessions' = sessions)]_vars

\* C18: a step that answers a request with an error other than 403 changes
\* neither users nor sessions, and the request has committed nothing before
\* it: the user a failing registration inserted is not in the table
C18_NoPartialCommit ==
    [][last'.status \in {400, 401, 500} =>
          /\ users' = users
          /\ sessions' = sessions
          /\ \A p \in Procs :
                (pc[p] = "register_session" /\ pc'[p] = "idle")
                    => local[p].user_id \notin DOMAIN users']_vars

\* C19: a login with an unknown email and a login with a wrong password get
\* the same 401 response and change nothing; a refresh with an expired
\* credential, with a forged one, and with a well-signed one that matches no
\* session get the same 401 response.  (The refresh requests are looked for
\* only behind the steps that leave another response.)
C19_NoOracle ==
    [][/\ last'.op = "login" =>
            \A p \in Procs, e \in Emails, pw \in Passwords :
               (/\ \A i \in DOMAIN users :
                      users[i].email = e => users[i].password_hash # hash_password(pw)
                /\ LoginAuth(p, e, pw))
                   => (/\ last'.status = 401
                       /\ last'.detail = "Invalid email or password"
                       /\ users' = users
                       /\ sessions' = sessions)
       /\ (/\ RefreshStep
           /\ ~(/\ last'.status = 401
                /\ last'.detail = "Invalid or expired refresh token")) =>
            \A p \in Procs, c \in Cookies \ {<<>>}, d \in DeviceIds :
               (/\ c[1].type = "refresh"
                /\ \/ c[1].exp <= now
                   \/ c[1].sig # "ok"
                   \/ \A i \in DOMAIN sessions :
                         \/ sessions[i].refresh_token_hash # hash_refresh_token(c[1])
                         \/ sessions[i].device_id # d
                /\ RefreshQuery(p, c, d))
                   => (/\ last'.status = 401
                       /\ last'.detail = "Invalid or expired refresh token")]_vars

\* a login was refused while a user is registered, so that an unknown email
\* and a wrong password can both be presented
C19_Witness ==
    /\ last.op = "login"
    /\ last.status = 401
    /\ last.detail = "Invalid email or password"
    /\ users # <<>>

\* C20: a successful login of a user who has a non-revoked session on the
\* device the request comes from (the handler takes no device id, so this is
\* any device of the user) creates its session under that device id and leaves
\* the earlier session revoked
C20_LoginReplaces ==
    [][\A p \in Procs :
          (pc[p] = "login_session" /\ pc'[p] = "idle" /\ last'.status = 200) =>
              \A i \in DOMAIN sessions :
                  (sessions[i].user_id = local[p].user_id /\ ~sessions[i].revoked)
                      => (/\ sessions'[last'.sid].device_id = sessions[i].device_id
                          /\ sessions'[i].revoked)]_vars

\* C21: revoke_session applied to a session that is revoked, and
\* revoke_all_user_sessions applied to a user whose sessions are all revoked,
\* return the sessions as they are, revoked_at included
C21_RevocationIdempotent ==
    /\ \A i \in DOMAIN sessions :
          sessions[i].revoked => revoke_session(sessions, i, now) = sessions
    /\ \A u \in DOMAIN users :
          AllRevoked(sessions, u)
              => revoke_all_user_sessions(sessions, u, now) = sessions

\* C22: a refresh that returns 200 leaves the number of sessions and every
\* session but its own as they were; its own session holds the hash of the
\* credential issued, last_used_at = now and expires_at = now + the refresh
\* lifetime, keeps its user id and device id, and is not revoked
C22_RotationInPlace ==
    [][\A p \in Procs :
          (pc[p] = "refresh_write" /\ pc'[p] = "idle" /\ last'.status = 200) =>
              LET sid == local[p].sid
                  issued == generate_tokens(sessions[sid].user_id, now)[2]
              IN /\ Len(sessions') = Len(sessions)
                 /\ \A i \in DOMAIN sessions \ {sid} : sessions'[i] = sessions[i]
                 /\ sessions'[sid].refresh_token_hash = hash_refresh_token(issued)
                 /\ sessions'[sid].last_used_at = <<now>>
                 /\ sessions'[sid].expires_at = now + RefreshTTL
                 /\ sessions'[sid].user_id = sessions[sid].user_id
                 /\ sessions'[sid].device_id = sessions[sid].device_id
                 /\ sessions'[sid].revoked_at = sessions[sid].revoked_at
                 /\ sessions'[sid].revoked = FALSE]_vars

\* C23: a refresh presenting, with its device id, the credential held by a
\* session that is revoked and whose expires_at has passed is answered 403 and
\* leaves every session of the user revoked
C23_RevokedBeforeExpiry ==
    [][\A p \in Procs, h \in DOMAIN sessions :
          (/\ RefreshStep
           /\ sessions[h].revoked
           /\ sessions[h].expires_at <= now
           /\ RefreshQuery(p, <<Current(sessions, h)>>, sessions[h].device_id))
              => (/\ last'.status = 403
                  /\ AllRevoked(sessions', sessions[h].user_id))]_vars

\* C24: a logout answered 204 leaves the session that held the hash of the
\* presented credential revoked, with revoked_at set, and leaves the revoked
\* flag, the hash and expires_at of every other session as they were
C24_LogoutRevokesOne ==
    [][(last'.op = "logout" /\ last'.status = 204) =>
          \A p \in Procs, h \in DOMAIN sessions, d \in DeviceIds :
              Logout(p, <<Current(sessions, h)>>, d) =>
                  /\ sessions'[h].revoked
                  /\ sessions'[h].revoked_at = <<now>>
                  /\ Len(sessions') = Len(sessions)
                  /\ \A i \in DOMAIN sessions \ {h} :
                        /\ sessions'[i].revoked = sessions[i].revoked
                        /\ sessions'[i].refresh_token_hash
                               = sessions[i].refresh_token_hash
                        /\ sessions'[i].expires_at = sessions[i].expires_at]_vars

\* a logout has revoked a session of a user who has another session, not
\* revoked, on another device
C24_Witness ==
    /\ last.op = "logout"
    /\ last.status = 204
    /\ sessions[last.sid].revoked
    /\ \E i \in DOMAIN sessions \ {last.sid} :
          /\ sessions[i].user_id = sessions[last.sid].user_id
          /\ sessions[i].device_id # sessions[last.sid].device_id
          /\ ~sessions[i].revoked

\* C25: a logout presenting the credential held by a session that is revoked
\* is answered 401 and leaves every session as it was, the other sessions of
\* the user not revoked.  (The logouts are looked for only behind the steps
\* that leave another outcome.)
C25_LogoutOfRevoked ==
    [][(/\ last'.op = "logout"
        /\ ~(last'.status = 401 /\ sessions' = sessions)) =>
          \A p \in Procs, h \in DOMAIN sessions, d \in DeviceIds :
              (sessions[h].revoked /\ Logout(p, <<Current(sessions, h)>>, d))
                  => (last'.status = 401 /\ sessions' = sessions)]_vars

\* a logout with the still unexpired credential of a revoked session was
\* answered 401 while the user has a session that is not revoked
C25_Witness ==
    /\ last.op = "logout"
    /\ last.status = 401
    /\ last.holder # 0
    /\ sessions[last.holder].revoked
    /\ verify_token(Current(sessions, last.holder), "refresh", now) # <<>>
    /\ \E i \in DOMAIN sessions :
          /\ sessions[i].user_id = sessions[last.holder].user_id
          /\ ~sessions[i].revoked

\* C26: a refresh presenting the unexpired credential and the device id of a
\* session that is neither revoked nor expired passes the query, and, when
\* the session at its write still holds that credential and is neither
\* revoked nor expired, it returns 200
C26_IssuedUsable ==
    [][/\ \A p \in Procs, h \in DOMAIN sessions :
             (/\ RefreshStep
              /\ ~sessions[h].revoked
              /\ sessions[h].expires_at > now
              /\ Current(sessions, h).exp > now
              /\ RefreshQuery(p, <<Current(sessions, h)>>, sessions[h].device_id))
                 => (pc'[p] = "refresh_write" /\ local'[p].sid = h)
       /\ \A p \in Procs :
             (/\ pc[p] = "refresh_write"
              /\ pc'[p] = "idle"
              /\ ~sessions[local[p].sid].revoked
              /\ sessions[local[p].sid].expires_at > now
              /\ Current(sessions, local[p].sid) = local[p].cookie[1])
                 => last'.status = 200]_vars

C28_FreshCredential ==
    [][/\ \A p \in Rotating : Returned(p) # local[p].cookie[1]
       /\ \A p \in Procs :
             (/\ pc[p] \in {"login_session", "register_session"}
              /\ pc'[p] = "idle"
              /\ last'.status \in {200, 201})
                 => /\ local[p].tokens[2] \notin rotated
                    /\ \A i \in DOMAIN sessions :
                          Current(sessions, i) # local[p].tokens[2]]_vars

\* C29: a login with the correct email and password of a user whose sessions
\* are all revoked, as a refresh answered 403 leaves them, returns 200 and
\* creates a session that is not revoked and holds the credential returned
C29_NoLockout ==
    [][\A p \in Procs :
          (/\ pc[p] = "login_session"
           /\ pc'[p] = "idle"
           /\ \E i \in DOMAIN sessions : sessions[i].user_id = local[p].user_id
           /\ AllRevoked(sessions, local[p].user_id)
           /\ existing_session(sessions, local[p].user_id, local[p].device_id)
                 = local[p].sid)
              => (/\ last'.status = 200
                  /\ ~sessions'[last'.sid].revoked
                  /\ Current(sessions', last'.sid) = local[p].tokens[2])]_vars

\* C30 (worker delete-or-retry): process_message deletes the message exactly
\* when the handler of its action returned (an unknown action included) or
\* its content is not valid JSON; a message whose process_video raised stays
\* in the queue; and a message leaves the queue only in the process_message
\* step that worked on it
C30_DeleteOrRetry ==
    [][/\ wlast'.op = "process_message"
            => /\ (wlast'.id \notin DOMAIN queue')
                    <=> \/ wlast'.handler = "returned"
                        \/ json_loads(queue[wlast'.id].content).raised
                              = "JSONDecodeError"
               /\ wlast'.handler = "raised" => wlast'.id \in DOMAIN queue'
       /\ \A m \in DOMAIN queue \ DOMAIN queue' :
             wlast'.op = "process_message" /\ wlast'.id = m]_vars

\* C31 (worker liveness): the worker keeps running after any exception raised
\* while it receives or processes messages, only KeyboardInterrupt sets
\* running to false, and whatever process_message met on one message, the
\* remaining messages of the same page are still to be processed
C31_KeepsPolling ==
    [][/\ (worker.running /\ ~worker'.running) => wlast'.op = "interrupt"
       /\ wlast'.op \in {"receive_error", "process_message"}
             => worker'.running
       /\ wlast'.op = "process_message"
             => worker'.batch = Tail(worker.batch)]_vars

\* C32 (processing-job state machine): each process_video call creates one
\* ProcessingJob and leaves it in one terminal status, COMPLETED when the
\* call returned and FAILED when it raised; completed_at is set exactly when
\* the status is COMPLETED or FAILED; and a COMPLETED job has current_step
\* "done" and progress 100
C32_JobStateMachine ==
    [][(/\ wlast'.op = "process_message"
        /\ json_loads(queue[wlast'.id].content).raised = ""
        /\ queue[wlast'.id].content.action = "process_video")
          => /\ Len(jobs') = Len(jobs) + 1
             /\ LET job == jobs'[Len(jobs')]
                IN  /\ wlast'.handler = "returned" => job.status = "completed"
                    /\ wlast'.handler = "raised" => job.status = "failed"
                    /\ job.completed_at # "None"
                          <=> job.status \in {"completed", "failed"}
                    /\ job.status = "completed"
                          => /\ job.current_step = "done"
                             /\ job.progress_percentage = 100]_vars

\* the step is one of verify_upload that answered or stored something new
UploadStep == vlast' # vlast \/ videos' # videos

\* C33 (upload without message): verify_upload stores a video row and sends a
\* processing message only for a blob the container holds; when the blob
\* exists and the send fails, the response says queue_message_sent = false
\* and the committed video row stays, with no message for it in the queue
C33_VerifyUpload ==
    [][UploadStep =>
          /\ \A i \in DOMAIN videos' \ DOMAIN videos :
                videos'[i].blob_url[3] \in blobs
          /\ \A m \in DOMAIN queue' \ DOMAIN queue :
                /\ queue'[m].content.video_id \in DOMAIN videos' \ DOMAIN videos
                /\ queue'[m].content.action = "process_video"
          /\ (vlast'.status = 200 /\ ~vlast'.exists)
                => videos' = videos /\ queue' = queue
          /\ (vlast'.status = 200 /\ vlast'.exists /\ queue' = queue)
                => /\ ~vlast'.queue_message_sent
                   /\ vlast'.video_id \in DOMAIN videos' \ DOMAIN videos
                   /\ vlast'.video_id \notin enqueued'
          /\ (vlast'.status = 200 /\ vlast'.exists /\ queue' # queue)
                => /\ vlast'.queue_message_sent
                   /\ \E m \in DOMAIN queue' \ DOMAIN queue :
                         queue'[m].content.video_id = vlast'.video_id]_vars

\* a verify_upload whose send failed has answered: its video row exists and
\* no message was ever sent for it
C33_Witness ==
    /\ vlast.op = "verify_upload"
    /\ vlast.status = 200
    /\ vlast.exists
    /\ ~vlast.queue_message_sent
    /\ vlast.video_id \in DOMAIN videos
    /\ vlast.video_id \notin enqueued
    /\ \A m \in DOMAIN queue : queue[m].content.video_id # vlast.video_id
====
